---------------------------- MODULE Spec2Model ----------------------------
(***************************************************************************)
(* Model of the two engines of the repository:                             *)
(*   - FileFolderScanWorker (storage_analyzer_gui.py): the cancellable     *)
(*     directory scan with bottom-up folder size aggregation;              *)
(*   - combine_files_to_single_file_gui (combined.py): the include/exclude *)
(*     filtered tree walk that concatenates file contents.                 *)
(* Both run over a file system tree `fs` drawn from a bounded family.      *)
(* Absolute paths are strings, modelled as sequences of one-character      *)
(* strings, so that dirname, startswith, count and string comparison act   *)
(* on characters as they do in the code.                                   *)
(***************************************************************************)
EXTENDS Integers, Sequences, FiniteSets, TLC

\* ----------------------------------------------------------------- bounds
\* Most directories below the root (and so the longest path below it).
MaxDirs == 2
\* Most entries in the tree besides its directories: file entries, and bulks
\* of sub-directory entries that os.walk lists but never yields (symbolic
\* links to directories).
MaxEntries == 2
\* Most file entries in a tree the combiner is called on.
MaxCombFiles == 1
\* Most file entries in the shallow trees (the root and at most one directory
\* below it) on which the handling of the single files is checked.
MaxFlatFiles == 2
\* The window: scans started, clicks on the disk tab's refresh button, and
\* progress signals waiting in the queue of the main thread.
MaxScans == 2
MaxRefreshes == 1
MaxPosted == 2

\* Directory and file base names, file sizes and bulk counts of the family.
DirNames == {"a", "b"}
FileNames == {"x", "y"}
Sizes == {1, 2}
BulkCounts == {19999, 980000}
\* The scan roots: an ordinary directory, and the file system root, whose
\* absolute path ends in the separator.
RootPaths == {<<"/", "p">>, <<"/">>}
\* The root the combiner is called on, the file sizes of its trees, and the
\* values its four lists are drawn from.
CombineRoot == <<"/", "p">>
\* An output path outside the root, and one directly in it.
OutsidePath == <<"/", "q", "/", "o">>
InsidePath == <<"/", "p", "/", "o">>
CombSizes == {0, 1}
InclDirChoices == {{}, {<<"a">>}, {<<"b">>}}
InclFileChoices == {{}, {<<"x">>}}
ExclDirChoices == {{}, {<<"b">>}}
ExclFileChoices == {{}, {<<"x">>}}

\* ------------------------------------------------------ program constants
\* self.progress_update_interval
progress_update_interval == 1000
\* the divisor of the walk-phase percentage: int(total_scanned_items / 10000)
ScanPercentDivisor == 10000
\* the cap of the walk-phase percentage, and the value emitted after the walk
ScanPhaseCap == 90

\* Python's None where a path is expected: a value that is no path.
None == <<"None">>

\* ---------------------------------------------------------- string helpers
sep == "/"

\* ord() of the characters used in paths.
Ord(c) ==
    CASE c = "/" -> 47
      [] c = "a" -> 97
      [] c = "b" -> 98
      [] c = "o" -> 111
      [] c = "p" -> 112
      [] c = "x" -> 120
      [] c = "y" -> 121
      [] OTHER -> 0

\* s.startswith(prefix)
startswith(s, prefix) ==
    /\ Len(prefix) <= Len(s)
    /\ \A i \in 1..Len(prefix) : s[i] = prefix[i]

\* s.count(os.sep)
CountSep(s) == Cardinality({i \in 1..Len(s) : s[i] = sep})

\* s.rfind(os.sep) + 1  (0 when s holds no separator)
RFindSep1(s) ==
    IF \E i \in 1..Len(s) : s[i] = sep
    THEN CHOOSE i \in 1..Len(s) :
            /\ s[i] = sep
            /\ \A j \in (i+1)..Len(s) : s[j] # sep
    ELSE 0

\* s.rstrip(os.sep)
RECURSIVE RStripSep(_)
RStripSep(s) ==
    IF s # <<>> /\ s[Len(s)] = sep THEN RStripSep(SubSeq(s, 1, Len(s) - 1)) ELSE s

\* os.path.dirname(p): the head up to the last separator, trailing separators
\* stripped unless the head consists of separators only.
dirname(p) ==
    LET head == SubSeq(p, 1, RFindSep1(p))
    IN  IF head # <<>> /\ (\E i \in 1..Len(head) : head[i] # sep)
        THEN RStripSep(head)
        ELSE head

\* os.path.join(a, b) for a one-segment b
join(a, b) ==
    IF a = <<>> \/ a[Len(a)] = sep THEN a \o <<b>> ELSE a \o <<sep, b>>

\* Python's string comparison s < t.
RECURSIVE StrLess(_, _)
StrLess(s, t) ==
    IF t = <<>> THEN FALSE
    ELSE IF s = <<>> THEN TRUE
    ELSE IF s[1] # t[1] THEN Ord(s[1]) < Ord(t[1])
    ELSE StrLess(Tail(s), Tail(t))

\* ------------------------------------------------------------ file system
\* A directory is the sequence of its segments below the root (<<>> is the
\* root). A file entry has a directory, a base name, a kind and a size:
\*   "reg"   a regular readable text file;
\*   "link"  a symbolic link to a regular file of that size;
\*   "gone"  an entry whose os.stat / open raises (vanished or forbidden);
\*   "bin"   a regular file whose content does not decode as UTF-8.
Kinds == {"reg", "link", "gone", "bin"}

Front(d) == SubSeq(d, 1, Len(d) - 1)

\* The tree that is a lone, empty root directory.
NoTree == [dirs |-> {<<>>}, files |-> {}, bulk |-> [d \in {<<>>} |-> 0]]

\* The number of entries of a tree besides its directories.
EntryCount(t) == Cardinality(t.files) + Cardinality({d \in t.dirs : t.bulk[d] # 0})

\* ------------------------------------------------------------------ state
VARIABLES
    \* the file system tree both engines run over:
    \* [dirs, files, bulk] with bulk[d] the number of entries of d that
    \* os.walk lists among its sub-directories and never yields
    fs,
    \* FileFolderScanWorker
    path,                       \* self.path
    root_is_dir,                \* os.path.isdir(self.path)
    pc,                         \* position of run()
    is_cancelled,               \* self._is_cancelled
    total_scanned_items,        \* self.total_scanned_items
    walk_stack,                 \* directories os.walk has still to yield
    root,                       \* the directory of the current iteration
    files,                      \* the file entries of it still to process
    file_details,               \* file_details
    folder_direct_file_sizes,   \* folder_direct_file_sizes
    all_scanned_paths,          \* all_scanned_paths
    folder_aggregate_sizes,     \* folder_aggregate_sizes
    sorted_paths,               \* sorted_paths_for_aggregation, the part left
    folder_data,                \* folder_data
    events,                     \* the signals emitted so far, in order
    finished_args,              \* the arguments of finished.emit, once emitted
    cancel_at                   \* history: where run() stood when cancel() was
                                \* called ("aggregate_end": in the propagation
                                \* loop, past the check of its last iteration)

VARIABLES
    \* combine_files_to_single_file_gui
    cpc,                        \* position of the call
    root_dir,                   \* root_dir
    excluded_dirs_list,         \* the four lists, as sets of names
    excluded_files_list,
    included_dirs_list,
    included_files_list,
    use_include_mode,           \* use_include_mode
    cwalk,                      \* directories os.walk has still to yield
    combined_content,           \* combined_content
    status,                     \* the messages given to status_callback
    result,                     \* the value returned: "none" until it returns
    outfile,                    \* the output file: <<>> or <<its text>>
    yielded,                    \* history: directories os.walk yielded
    descended,                  \* history: directories whose files were filtered
    prev_outfile,               \* history: the output file of the previous call
    output_full_path            \* output_full_path

VARIABLES
    \* StorageAnalyzerApp
    scan_button,                \* scan_button.isEnabled()
    cancel_scan_button,         \* cancel_scan_button.isEnabled()
    save_files_csv_button,      \* save_files_csv_button.isEnabled()
    save_folders_csv_button,    \* save_folders_csv_button.isEnabled()
    explorer_refresh_button,    \* explorer_refresh_button.isEnabled()
    progress_bar,               \* progress_bar.value()
    df_disk_info,               \* df_disk_info is loaded (not empty)
    df_files_details,           \* NoWorker (empty) or the worker whose data it is
    df_folders_details,         \* NoWorker (empty) or the worker whose data it is
    current_scan_path,          \* NoWorker ("") or the worker whose path it is
    file_folder_scan_worker,    \* NoWorker (None) or the worker last created
    workers,                    \* the FileFolderScanWorkers created, in order:
                                \* [alive, is_cancelled, delivered], delivered
                                \* the terminal signal the window has handled
    disk_threads,               \* disk scan threads that are running
    disk_refreshes,             \* clicks on the disk tab's refresh button
    posted                      \* signals queued for the main thread, in order

combVars == <<cpc, root_dir, excluded_dirs_list, excluded_files_list,
              included_dirs_list, included_files_list, use_include_mode, cwalk,
              combined_content, status, result, outfile, yielded, descended,
              prev_outfile, output_full_path>>

scanVars == <<path, root_is_dir, pc, is_cancelled, total_scanned_items,
              walk_stack, root, files, file_details, folder_direct_file_sizes,
              all_scanned_paths, folder_aggregate_sizes, sorted_paths,
              folder_data, events, finished_args, cancel_at>>

appVars == <<scan_button, cancel_scan_button, save_files_csv_button,
             save_folders_csv_button, explorer_refresh_button, progress_bar,
             df_disk_info, df_files_details, df_folders_details,
             current_scan_path, file_folder_scan_worker, workers,
             disk_threads, disk_refreshes, posted>>

vars == <<fs, scanVars, combVars, appVars>>

\* No worker: None for file_folder_scan_worker, the empty DataFrame and the
\* empty string for the results of a scan. Workers are numbered from 1 in
\* the order of their creation.
NoWorker == 0

\* StorageAnalyzerApp.__init__ and setup_ui: the window as constructed, with
\* the disk scan that setup_ui starts.
AppConstructed ==
    /\ scan_button = TRUE
    /\ cancel_scan_button = FALSE
    /\ save_files_csv_button = TRUE
    /\ save_folders_csv_button = TRUE
    /\ explorer_refresh_button = FALSE
    /\ progress_bar = 0
    /\ df_disk_info = FALSE
    /\ df_files_details = NoWorker
    /\ df_folders_details = NoWorker
    /\ current_scan_path = NoWorker
    /\ file_folder_scan_worker = NoWorker
    /\ workers = <<>>
    /\ disk_threads = 1
    /\ disk_refreshes = 0
    /\ posted = <<>>

\* ----------------------------------------------------- directory listing
\* The names of S in the order the listing supplies them (by code point).
RECURSIVE NameSeq(_)
NameSeq(S) ==
    IF S = {} THEN <<>>
    ELSE LET m == CHOOSE n \in S : \A o \in S : Ord(n) <= Ord(o)
         IN  <<m>> \o NameSeq(S \ {m})

\* The sub-directories of d that os.walk yields, in listing order.
ChildDirs(d) ==
    LET names == {e[Len(e)] : e \in {c \in fs.dirs : Len(c) = Len(d) + 1 /\ Front(c) = d}}
        ns == NameSeq(names)
    IN  [i \in 1..Len(ns) |-> Append(d, ns[i])]

\* The file entries of d, in listing order.
FilesOf(d) ==
    LET F == {f \in fs.files : f.dir = d}
        ns == NameSeq({f.name : f \in F})
    IN  [i \in 1..Len(ns) |-> CHOOSE f \in F : f.name = ns[i]]

\* The path os.walk yields for directory d: top joined with each segment.
RECURSIVE AbsPath(_, _)
AbsPath(top, d) ==
    IF d = <<>> THEN top ELSE join(AbsPath(top, Front(d)), d[Len(d)])

\* len(dirs) of the triple yielded for d: walked sub-directories plus the
\* listed entries that are never yielded.
LenDirs(d) == Len(ChildDirs(d)) + fs.bulk[d]

\* -------------------------------------------------- FileFolderScanWorker
Progress(pct, msg) == [sig |-> "progress", pct |-> pct, msg |-> msg]
Error(msg) == [sig |-> "error", pct |-> 0, msg |-> msg]
Finished == [sig |-> "finished", pct |-> 0, msg |-> ""]

Min(a, b) == IF a <= b THEN a ELSE b

\* Mutant: the percentage without its cap.
ScanPercent_NoCap(total) == total \div ScanPercentDivisor

\* min(int(self.total_scanned_items / 10000), 90)
ScanPercent(total) == Min(total \div ScanPercentDivisor, ScanPhaseCap)

\* d.get(k, default)
DictGet(d, k, default) == IF k \in DOMAIN d THEN d[k] ELSE default

\* d[k] = v
DictSet(d, k, v) == [x \in DOMAIN d \cup {k} |-> IF x = k THEN v ELSE d[x]]

\* The paths the inner while loop adds for one scanned path: every proper
\* ancestor p that is non-empty, differs from self.path and starts with it.
RECURSIVE AncestorsWithin(_, _)
AncestorsWithin(p, top) ==
    IF p # <<>> /\ p # top /\ startswith(p, top)
    THEN {p} \cup AncestorsWithin(dirname(p), top)
    ELSE {}

\* all_scanned_paths after the ancestor loop and the root check.
WithAncestors(paths, top) ==
    paths \cup UNION {AncestorsWithin(dirname(q), top) : q \in paths} \cup {top}

\* The sort key (x.count(os.sep), x) compared: k(p) < k(q).
KeyLess(p, q) ==
    \/ CountSep(p) < CountSep(q)
    \/ CountSep(p) = CountSep(q) /\ StrLess(p, q)

\* Mutant: the sort without reverse=True (shallowest first).
RECURSIVE SortedForAggregation_Ascending(_)
SortedForAggregation_Ascending(paths) ==
    IF paths = {} THEN <<>>
    ELSE LET m == CHOOSE p \in paths : \A q \in paths : q = p \/ KeyLess(p, q)
         IN  <<m>> \o SortedForAggregation_Ascending(paths \ {m})

\* sorted(list(all_scanned_paths), key=..., reverse=True)
RECURSIVE SortedForAggregation(_)
SortedForAggregation(paths) ==
    IF paths = {} THEN <<>>
    ELSE LET m == CHOOSE p \in paths : \A q \in paths : q = p \/ KeyLess(q, p)
         IN  <<m>> \o SortedForAggregation(paths \ {m})

\* Mutant: the size of p added to the scan root instead of p's parent.
Propagate_ToRoot(agg, p, top) ==
    IF p # top /\ dirname(p) \in DOMAIN agg
    THEN [agg EXCEPT ![top] = @ + agg[p]]
    ELSE agg

\* One iteration of the propagation loop for path p.
Propagate(agg, p, top) ==
    IF p # top /\ dirname(p) \in DOMAIN agg
    THEN [agg EXCEPT ![dirname(p)] = @ + agg[p]]
    ELSE agg

\* Mutant: the hierarchy test without its `path == self.path` alternative.
InHierarchy_NoRoot(p, top) == startswith(p, top \o <<sep>>)

\* "Only include folders within the original scan path's hierarchy".
InHierarchy(p, top) == p = top \/ startswith(p, top \o <<sep>>)

\* "Parent Folder" of a folder record.
ParentFolder(p, top) == IF p # top THEN dirname(p) ELSE None

\* One row of folder_data.
FolderRow(p, size, top) ==
    [Path |-> p, Size |-> size, Parent |-> ParentFolder(p, top)]

\* The keys of a dictionary in iteration order (taken ascending).
RECURSIVE KeySeq(_)
KeySeq(K) ==
    IF K = {} THEN <<>>
    ELSE LET m == CHOOSE p \in K : \A q \in K : q = p \/ StrLess(p, q)
         IN  <<m>> \o KeySeq(K \ {m})

\* folder_data built from folder_aggregate_sizes.items().
RECURSIVE FolderRows(_, _, _)
FolderRows(keys, agg, top) ==
    IF keys = <<>> THEN <<>>
    ELSE (IF InHierarchy(Head(keys), top)
          THEN <<FolderRow(Head(keys), agg[Head(keys)], top)>>
          ELSE <<>>) \o FolderRows(Tail(keys), agg, top)

\* One row of file_details (the size, path and parent columns).
FileRow(dir, f) ==
    [Path |-> join(dir, f.name), Name |-> f.name, Size |-> f.size, Parent |-> dir]

\* Mutant: a stat that never fails.
StatOk_Always(f) == TRUE

\* os.stat(file_path) succeeds (it follows a symbolic link to its target).
StatOk(f) == f.kind # "gone"

Emit(e) == events' = Append(events, e)

\* cancel(): called from the GUI thread at any moment.
Cancel ==
    /\ pc # "setup"
    /\ ~is_cancelled
    /\ is_cancelled' = TRUE
    /\ cancel_at' = IF pc = "aggregate" /\ sorted_paths = <<>>
                     THEN "aggregate_end" ELSE pc
    /\ UNCHANGED <<appVars, combVars, fs, path, root_is_dir, pc, total_scanned_items, walk_stack,
                   root, files, file_details, folder_direct_file_sizes,
                   all_scanned_paths, folder_aggregate_sizes, sorted_paths,
                   folder_data, events, finished_args>>

\* Mutant: the root check without its return.
RunInvalidRoot_NoReturn ==
    /\ pc = "start"
    /\ ~root_is_dir
    /\ events' = events \o <<Error("not a valid directory"),
                              Progress(0, "Starting scan...")>>
    /\ walk_stack' = << <<>> >>
    /\ pc' = "walk"
    /\ UNCHANGED <<appVars, combVars, fs, path, root_is_dir, is_cancelled, total_scanned_items,
                   root, files, file_details, folder_direct_file_sizes,
                   all_scanned_paths, folder_aggregate_sizes, sorted_paths,
                   folder_data, finished_args, cancel_at>>

\* A variant that announces the scan and counts the root before the check.
RunInvalidRoot_ProgressFirst ==
    /\ pc = "start"
    /\ ~root_is_dir
    /\ events' = events \o <<Progress(0, "Starting scan..."),
                              Error("not a valid directory")>>
    /\ total_scanned_items' = total_scanned_items + 1
    /\ pc' = "done"
    /\ UNCHANGED <<appVars, combVars, fs, path, root_is_dir, is_cancelled,
                   walk_stack, root, files, file_details,
                   folder_direct_file_sizes, all_scanned_paths,
                   folder_aggregate_sizes, sorted_paths, folder_data,
                   finished_args, cancel_at>>

\* run(): the root check; an invalid root emits error and returns.
RunInvalidRoot ==
    /\ pc = "start"
    /\ ~root_is_dir
    /\ Emit(Error("not a valid directory"))
    /\ pc' = "done"
    /\ UNCHANGED <<appVars, combVars, fs, path, root_is_dir, is_cancelled, total_scanned_items,
                   walk_stack, root, files, file_details,
                   folder_direct_file_sizes, all_scanned_paths,
                   folder_aggregate_sizes, sorted_paths, folder_data,
                   finished_args, cancel_at>>

\* run(): initialisation, progress 0 and the start of os.walk.
RunStart ==
    /\ pc = "start"
    /\ root_is_dir
    /\ Emit(Progress(0, "Starting scan..."))
    /\ walk_stack' = << <<>> >>
    /\ pc' = "walk"
    /\ UNCHANGED <<appVars, combVars, fs, path, root_is_dir, is_cancelled, total_scanned_items,
                   root, files, file_details, folder_direct_file_sizes,
                   all_scanned_paths, folder_aggregate_sizes, sorted_paths,
                   folder_data, finished_args, cancel_at>>

\* The head of one os.walk iteration: the cancellation check, the entry for
\* root and the count of its sub-directory entries.
WalkDir ==
    /\ pc = "walk"
    /\ walk_stack # <<>>
    /\ LET d == Head(walk_stack)
           r == AbsPath(path, d)
       IN  IF is_cancelled
           THEN /\ Emit(Error("Scan cancelled by user."))
                /\ pc' = "done"
                /\ UNCHANGED <<walk_stack, root, files, all_scanned_paths,
                               folder_direct_file_sizes, total_scanned_items>>
           ELSE /\ root' = r
                /\ walk_stack' = ChildDirs(d) \o Tail(walk_stack)
                /\ all_scanned_paths' = all_scanned_paths \cup {r}
                /\ folder_direct_file_sizes' =
                       DictSet(folder_direct_file_sizes, r,
                               DictGet(folder_direct_file_sizes, r, 0))
                /\ total_scanned_items' = total_scanned_items + LenDirs(d)
                /\ files' = FilesOf(d)
                /\ pc' = "files"
                /\ UNCHANGED events
    /\ UNCHANGED <<appVars, combVars, fs, path, root_is_dir, is_cancelled, file_details,
                   folder_aggregate_sizes, sorted_paths, folder_data,
                   finished_args, cancel_at>>

\* One iteration of the loop over files: the cancellation check, the count,
\* os.stat and the file record.
ProcessFile ==
    /\ pc = "files"
    /\ files # <<>>
    /\ LET f == Head(files)
       IN  IF is_cancelled
           THEN /\ Emit(Error("Scan cancelled by user."))
                /\ pc' = "done"
                /\ UNCHANGED <<files, total_scanned_items, file_details,
                               folder_direct_file_sizes>>
           ELSE /\ total_scanned_items' = total_scanned_items + 1
                /\ files' = Tail(files)
                /\ IF StatOk(f)
                   THEN /\ folder_direct_file_sizes' =
                               [folder_direct_file_sizes EXCEPT ![root] = @ + f.size]
                        /\ file_details' = Append(file_details, FileRow(root, f))
                   ELSE UNCHANGED <<folder_direct_file_sizes, file_details>>
                /\ UNCHANGED <<pc, events>>
    /\ UNCHANGED <<appVars, combVars, fs, path, root_is_dir, is_cancelled, walk_stack, root,
                   all_scanned_paths, folder_aggregate_sizes, sorted_paths,
                   folder_data, finished_args, cancel_at>>

\* Mutant: the periodic progress update without its interval test.
EndDir_EveryDirectory ==
    /\ pc = "files"
    /\ files = <<>>
    /\ Emit(Progress(ScanPercent(total_scanned_items), "Scanning"))
    /\ pc' = "walk"
    /\ UNCHANGED <<appVars, combVars, fs, path, root_is_dir, is_cancelled, total_scanned_items,
                   walk_stack, root, files, file_details,
                   folder_direct_file_sizes, all_scanned_paths,
                   folder_aggregate_sizes, sorted_paths, folder_data,
                   finished_args, cancel_at>>

\* The end of one os.walk iteration: the periodic progress update.
EndDir ==
    /\ pc = "files"
    /\ files = <<>>
    /\ IF total_scanned_items % progress_update_interval = 0
       THEN Emit(Progress(ScanPercent(total_scanned_items), "Scanning"))
       ELSE UNCHANGED events
    /\ pc' = "walk"
    /\ UNCHANGED <<appVars, combVars, fs, path, root_is_dir, is_cancelled, total_scanned_items,
                   walk_stack, root, files, file_details,
                   folder_direct_file_sizes, all_scanned_paths,
                   folder_aggregate_sizes, sorted_paths, folder_data,
                   finished_args, cancel_at>>

\* After the walk: progress 90, the ancestor loop, the initial aggregate
\* sizes and the sort.
EndWalk ==
    /\ pc = "walk"
    /\ walk_stack = <<>>
    /\ Emit(Progress(ScanPhaseCap, "Finished file scan, now aggregating folder sizes..."))
    /\ LET paths == WithAncestors(all_scanned_paths, path)
       IN  /\ all_scanned_paths' = paths
           /\ folder_aggregate_sizes' =
                  [p \in paths |-> DictGet(folder_direct_file_sizes, p, 0)]
           /\ sorted_paths' = SortedForAggregation(paths)
    /\ pc' = "aggregate"
    /\ UNCHANGED <<appVars, combVars, fs, path, root_is_dir, is_cancelled, total_scanned_items,
                   walk_stack, root, files, file_details,
                   folder_direct_file_sizes, folder_data, finished_args,
                   cancel_at>>

\* Mutant: the propagation loop without its cancellation check.
AggregateStep_NoCheck ==
    /\ pc = "aggregate"
    /\ sorted_paths # <<>>
    /\ folder_aggregate_sizes' =
           Propagate(folder_aggregate_sizes, Head(sorted_paths), path)
    /\ sorted_paths' = Tail(sorted_paths)
    /\ UNCHANGED <<appVars, combVars, fs, path, root_is_dir, pc, is_cancelled, total_scanned_items,
                   walk_stack, root, files, file_details,
                   folder_direct_file_sizes, all_scanned_paths, folder_data,
                   events, finished_args, cancel_at>>

\* One iteration of the propagation loop.
AggregateStep ==
    /\ pc = "aggregate"
    /\ sorted_paths # <<>>
    /\ IF is_cancelled
       THEN /\ Emit(Error("Scan cancelled by user during aggregation."))
            /\ pc' = "done"
            /\ UNCHANGED <<folder_aggregate_sizes, sorted_paths>>
       ELSE /\ folder_aggregate_sizes' =
                   Propagate(folder_aggregate_sizes, Head(sorted_paths), path)
            /\ sorted_paths' = Tail(sorted_paths)
            /\ UNCHANGED <<pc, events>>
    /\ UNCHANGED <<appVars, combVars, fs, path, root_is_dir, is_cancelled, total_scanned_items,
                   walk_stack, root, files, file_details,
                   folder_direct_file_sizes, all_scanned_paths, folder_data,
                   finished_args, cancel_at>>

\* Mutant: folder_data built without the progress update that precedes it.
GenerateFolders_NoProgress ==
    /\ pc = "aggregate"
    /\ sorted_paths = <<>>
    /\ folder_data' = FolderRows(KeySeq(DOMAIN folder_aggregate_sizes),
                                 folder_aggregate_sizes, path)
    /\ pc' = "complete"
    /\ UNCHANGED <<appVars, combVars, fs, path, root_is_dir, is_cancelled, total_scanned_items,
                   walk_stack, root, files, file_details,
                   folder_direct_file_sizes, all_scanned_paths,
                   folder_aggregate_sizes, sorted_paths, finished_args,
                   cancel_at, events>>

\* The propagation loop is exhausted: progress 99 and folder_data.
GenerateFolders ==
    /\ pc = "aggregate"
    /\ sorted_paths = <<>>
    /\ Emit(Progress(99, "Generating folder DataFrame..."))
    /\ folder_data' = FolderRows(KeySeq(DOMAIN folder_aggregate_sizes),
                                 folder_aggregate_sizes, path)
    /\ pc' = "complete"
    /\ UNCHANGED <<appVars, combVars, fs, path, root_is_dir, is_cancelled, total_scanned_items,
                   walk_stack, root, files, file_details,
                   folder_direct_file_sizes, all_scanned_paths,
                   folder_aggregate_sizes, sorted_paths, finished_args,
                   cancel_at>>

\* Mutant: finished emitted before the last progress.
Complete_FinishedFirst ==
    /\ pc = "complete"
    /\ events' = events \o <<Finished, Progress(100, "Scan complete.")>>
    /\ finished_args' = <<[df_files |-> file_details, df_folders |-> folder_data,
                           scan_path |-> path]>>
    /\ pc' = "done"
    /\ UNCHANGED <<appVars, combVars, fs, path, root_is_dir, is_cancelled, total_scanned_items,
                   walk_stack, root, files, file_details,
                   folder_direct_file_sizes, all_scanned_paths,
                   folder_aggregate_sizes, sorted_paths, folder_data,
                   cancel_at>>

\* progress 100 and finished.
Complete ==
    /\ pc = "complete"
    /\ events' = events \o <<Progress(100, "Scan complete."), Finished>>
    /\ finished_args' = <<[df_files |-> file_details, df_folders |-> folder_data,
                           scan_path |-> path]>>
    /\ pc' = "done"
    /\ UNCHANGED <<appVars, combVars, fs, path, root_is_dir, is_cancelled, total_scanned_items,
                   walk_stack, root, files, file_details,
                   folder_direct_file_sizes, all_scanned_paths,
                   folder_aggregate_sizes, sorted_paths, folder_data,
                   cancel_at>>

\* The combiner before any call.
CombIdle ==
    /\ cpc = "setup"
    /\ root_dir = <<>>
    /\ excluded_dirs_list = {}
    /\ excluded_files_list = {}
    /\ included_dirs_list = {}
    /\ included_files_list = {}
    /\ use_include_mode = FALSE
    /\ cwalk = <<>>
    /\ combined_content = <<>>
    /\ status = <<>>
    /\ result = "none"
    /\ outfile = <<>>
    /\ yielded = {}
    /\ descended = {}
    /\ prev_outfile = <<>>
    /\ output_full_path = <<>>

\* ------------------------------------------------------------ environment
\* Before an engine starts, the environment builds the tree: it makes
\* directories and creates entries, within the bounds. Trees that differ only
\* by exchanging the two names are not told apart: a second file name is used
\* in a directory only beside the first, and so is a second directory name
\* directly below the root, and with `canon` (for an engine that never reads
\* the names) in every directory.
EnvMkdir(canon, most) ==
    /\ Cardinality(fs.dirs) <= most
    /\ \E parent \in fs.dirs, n \in DirNames :
          LET d == Append(parent, n)
          IN  /\ d \notin fs.dirs
              /\ n = "b" /\ (canon \/ parent = <<>>) => Append(parent, "a") \in fs.dirs
              /\ fs' = [fs EXCEPT !.dirs = @ \cup {d},
                                  !.bulk = [e \in fs.dirs \cup {d} |->
                                               IF e = d THEN 0 ELSE fs.bulk[e]]]

EnvCreateFile(kinds, sizes, most) ==
    /\ EntryCount(fs) < most
    /\ \E d \in fs.dirs, n \in FileNames, k \in kinds, z \in sizes :
          /\ \A f \in fs.files : f.dir # d \/ f.name # n
          /\ n = "y" => \E f \in fs.files : f.dir = d /\ f.name = "x"
          /\ k = "link" => z = 1
          /\ k = "gone" => z = 1
          /\ k = "bin" => z = 1
          /\ fs' = [fs EXCEPT !.files = @ \cup {[dir |-> d, name |-> n,
                                                 kind |-> k, size |-> z]}]

EnvLinkDirs ==
    /\ EntryCount(fs) < MaxEntries
    /\ \E d \in fs.dirs, n \in BulkCounts :
          /\ fs.bulk[d] = 0
          /\ fs' = [fs EXCEPT !.bulk[d] = n]

\* FileFolderScanWorker(path) and the start of its thread, on a root that is
\* a directory or (the tree left untouched) is none.
StartScan ==
    /\ pc = "setup"
    /\ \E p \in RootPaths, isdir \in BOOLEAN :
          /\ ~isdir => fs = NoTree
          /\ path' = p
          /\ root_is_dir' = isdir
    /\ pc' = "start"
    /\ is_cancelled' = FALSE
    /\ total_scanned_items' = 0
    /\ UNCHANGED <<appVars, combVars, fs, walk_stack, root, files, file_details,
                   folder_direct_file_sizes, all_scanned_paths,
                   folder_aggregate_sizes, sorted_paths, folder_data, events,
                   finished_args, cancel_at>>

ScanEnv ==
    /\ pc = "setup"
    /\ \/ EnvMkdir(TRUE, MaxDirs)
       \/ EnvCreateFile({"reg", "link", "gone"}, Sizes, MaxEntries)
       \/ EnvLinkDirs
    /\ UNCHANGED <<appVars, scanVars, combVars>>

InitScan ==
    /\ AppConstructed
    /\ CombIdle
    /\ fs = NoTree
    /\ path = <<>>
    /\ root_is_dir = FALSE
    /\ pc = "setup"
    /\ is_cancelled = FALSE
    /\ total_scanned_items = 0
    /\ walk_stack = <<>>
    /\ root = <<>>
    /\ files = <<>>
    /\ file_details = <<>>
    /\ folder_direct_file_sizes = <<>>
    /\ all_scanned_paths = {}
    /\ folder_aggregate_sizes = <<>>
    /\ sorted_paths = <<>>
    /\ folder_data = <<>>
    /\ events = <<>>
    /\ finished_args = <<>>
    /\ cancel_at = "never"

NextScan ==
    \/ ScanEnv
    \/ StartScan
    \/ Cancel
    \/ RunInvalidRoot
    \/ RunStart
    \/ WalkDir
    \/ ProcessFile
    \/ EndDir
    \/ EndWalk
    \/ AggregateStep
    \/ GenerateFolders
    \/ Complete

SpecScan == InitScan /\ [][NextScan]_vars

\* ------------------------------------------------- properties of the scan
\* The sum of the Size column of the rows i of a table that satisfy Keep.
RECURSIVE SumSize(_)
\* A scan on which cancel() is never called. The worker's run() is the target
\* of a started thread (lines 746-747, 754): while it has a step to take, the
\* scheduler lets it take it.
RunStep ==
    \/ RunInvalidRoot
    \/ RunStart
    \/ WalkDir
    \/ ProcessFile
    \/ EndDir
    \/ EndWalk
    \/ AggregateStep
    \/ GenerateFolders
    \/ Complete

NextScanUncancelled ==
    \/ ScanEnv
    \/ StartScan
    \/ RunInvalidRoot
    \/ RunStart
    \/ WalkDir
    \/ ProcessFile
    \/ EndDir
    \/ EndWalk
    \/ AggregateStep
    \/ GenerateFolders
    \/ Complete

SpecScanFair == InitScan /\ [][NextScanUncancelled]_vars /\ WF_vars(RunStep)

\* ENABLED <<RunStep>>_vars as a state predicate: run() has a step to take
\* from its first statement until it returns.
RunEnabled == pc \in {"start", "walk", "files", "aggregate", "complete"}

\* SpecScanFair with WF_vars(RunStep) unfolded by its definition,
\* []<>~ENABLED <<RunStep>>_vars \/ []<><<RunStep>>_vars.
SpecScanFairUnfolded ==
    /\ InitScan
    /\ [][NextScanUncancelled]_vars
    /\ ([]<>(~RunEnabled) \/ []<><<RunStep>>_vars)

SumSize(rows) ==
    IF rows = <<>> THEN 0 ELSE Head(rows).Size + SumSize(Tail(rows))

SumSizeWhere(rows, Keep(_)) == SumSize(SelectSeq(rows, Keep))

RECURSIVE SumOfSet(_)
SumOfSet(F) ==
    IF F = {} THEN 0
    ELSE LET f == CHOOSE g \in F : TRUE IN f.size + SumOfSet(F \ {f})

HasFinished == finished_args # <<>>
DfFiles == finished_args[1].df_files
DfFolders == finished_args[1].df_folders
FolderRowsAt(p) == {i \in DOMAIN DfFolders : DfFolders[i].Path = p}
NoFileSkipped == \A f \in fs.files : StatOk(f)
TerminalAt == {i \in DOMAIN events : events[i].sig \in {"finished", "error"}}
IsCancelError(e) ==
    /\ e.sig = "error"
    /\ e.msg \in {"Scan cancelled by user.",
                  "Scan cancelled by user during aggregation."}
Percents == [i \in {j \in DOMAIN events : events[j].sig = "progress"} |-> events[i].pct]

\* C1: a scan that ends with finished emits one folder record for the scan
\* root, and its size is the sum of the sizes of all emitted file records;
\* when no file was skipped that is the sum of the sizes of all files of the
\* tree.
C1_RootSizeIsSumOfFiles ==
    HasFinished =>
        /\ Cardinality(FolderRowsAt(path)) = 1
        /\ \A i \in FolderRowsAt(path) :
              /\ DfFolders[i].Size = SumSize(DfFiles)
              /\ NoFileSkipped => DfFolders[i].Size = SumOfSet(fs.files)

\* C1 witness: a finished scan of a tree two levels deep with files of
\* different non-zero sizes at the bottom and at the top, none skipped.
C1_Witness ==
    /\ HasFinished
    /\ NoFileSkipped
    /\ \E f, g \in fs.files : Len(f.dir) = 2 /\ Len(g.dir) = 0 /\ f.size = 2 /\ g.size = 1

\* C2: every emitted folder record has as size the sum of the sizes of the
\* files directly inside it plus the sum of the emitted sizes of its
\* immediate child folders.
C2_FolderSizeIsDirectPlusChildren ==
    HasFinished =>
        \A i \in DOMAIN DfFolders :
            LET d == DfFolders[i]
                In(r) == r.Parent = d.Path
            IN  d.Size = SumSizeWhere(DfFiles, In) + SumSizeWhere(DfFolders, In)

\* C3: in the folder records emitted by finished, every record other than
\* the root's has a parent that is the path of exactly one other record, and
\* the root's parent is null.
C3_TreeConnected ==
    HasFinished =>
        \A i \in DOMAIN DfFolders :
            LET d == DfFolders[i]
            IN  IF d.Path = path
                THEN d.Parent = None
                ELSE Cardinality({j \in DOMAIN DfFolders \ {i} :
                                     DfFolders[j].Path = d.Parent}) = 1

\* C3 witness: a finished scan that emits a folder two levels below the
\* root, its parent and the root.
C3_Witness ==
    /\ HasFinished
    /\ \E i, j, k \in DOMAIN DfFolders :
          /\ DfFolders[i].Parent = DfFolders[j].Path
          /\ DfFolders[j].Parent = DfFolders[k].Path
          /\ DfFolders[k].Path = path

\* C4 as stated: on a directory root, whenever cancel() was called before
\* run() returned, the run ends with the cancellation error and without
\* finished.
C4_CancelAlwaysHonoured ==
    pc = "done" /\ root_is_dir /\ cancel_at \notin {"never", "done"} =>
        /\ finished_args = <<>>
        /\ IsCancelError(events[Len(events)])

\* C4 amended: on a directory root, a cancel() called before the last
\* cancellation check of run() (the check at the head of the last iteration
\* of the propagation loop) keeps finished from ever being emitted and ends
\* the run with the cancellation error; finished after a cancel() means the
\* cancel() came past that check.
C4_CancelBeforeLastCheck ==
    /\ root_is_dir /\ cancel_at \in {"start", "walk", "files", "aggregate"} =>
          /\ finished_args = <<>>
          /\ pc = "done" => IsCancelError(events[Len(events)])
    /\ HasFinished /\ is_cancelled => cancel_at \in {"aggregate_end", "complete", "done"}

\* C4 witness: a run cancelled in the propagation loop, after two files were
\* processed, that ended with the cancellation error.
C4_Witness ==
    /\ pc = "done"
    /\ cancel_at = "aggregate"
    /\ Len(file_details) = 2
    /\ events[Len(events)] = Error("Scan cancelled by user during aggregation.")

\* C5: a run that has returned has emitted exactly one terminal event,
\* finished or error.
C5_OneTerminalEvent ==
    pc = "done" => Cardinality(TerminalAt) = 1

\* C5 witness: a returned run whose terminal event is the error of an
\* invalid root.
C5_Witness ==
    /\ pc = "done"
    /\ ~root_is_dir
    /\ events = <<Error("not a valid directory")>>

\* C6: the terminal event is the last event of the run: nothing is emitted
\* after finished or after an error.
C6_TerminalIsLast ==
    \A i \in TerminalAt : i = Len(events)

\* C6 witness: a run that ended with finished after progress events.
C6_Witness ==
    /\ pc = "done"
    /\ Len(events) > 4
    /\ events[Len(events)] = Finished
    /\ events[Len(events) - 1].sig = "progress"

\* C7: the percentages emitted by progress never decrease, lie in 0..100,
\* and are at most 90 as long as the walk has not completed.
C7_ProgressMonotone ==
    /\ \A i, j \in DOMAIN Percents : i < j => Percents[i] <= Percents[j]
    /\ \A i \in DOMAIN Percents : Percents[i] \in 0..100
    /\ pc \in {"start", "walk", "files"} =>
          \A i \in DOMAIN Percents : Percents[i] <= ScanPhaseCap

\* C7 witness: a finished scan whose walk emitted a percentage strictly
\* between 0 and the cap, and one at the cap.
C7_Witness ==
    /\ HasFinished
    /\ \E i, j \in DOMAIN Percents :
          /\ i < j
          /\ events[i].msg = "Scanning" /\ events[j].msg = "Scanning"
          /\ Percents[i] = 2
          /\ Percents[j] = ScanPhaseCap

\* ------------------------------------- combine_files_to_single_file_gui
\* os.path.relpath(p, start) for p at or below start.
RelPath(p, start) ==
    IF p = start THEN <<".">>
    ELSE SubSeq(p, Len(start) + (IF start[Len(start)] = sep THEN 1 ELSE 2), Len(p))

\* s.split(os.sep)
RECURSIVE Split(_)
Split(s) ==
    IF \E i \in 1..Len(s) : s[i] = sep
    THEN LET i == CHOOSE j \in 1..Len(s) :
                     s[j] = sep /\ \A k \in 1..(j - 1) : s[k] # sep
         IN  <<SubSeq(s, 1, i - 1)>> \o Split(SubSeq(s, i + 1, Len(s)))
    ELSE <<s>>

\* The text of a readable file; the output file of an earlier call, found in
\* the tree, reads as what that call wrote.
Content(f) == IF f.kind = "out" THEN outfile[1] ELSE [i \in 1..f.size |-> "c"]

Msg(m, v) == [m |-> m, v |-> v]

\* A variant that appends nothing for a file without content.
Block_SkipEmpty(rel, text) ==
    IF text = <<>> THEN <<>>
    ELSE <<[t |-> "START FILE", v |-> rel], [t |-> "content", v |-> text],
           [t |-> "END FILE", v |-> rel]>>

\* The three fragments appended for a file that was read.
Block(rel, text) ==
    <<[t |-> "START FILE", v |-> rel], [t |-> "content", v |-> text],
      [t |-> "END FILE", v |-> rel]>>

\* use_include_mode = bool(included_dirs_list or included_files_list)
UseIncludeMode(idirs, ifiles) == idirs # {} \/ ifiles # {}

\* A variant that tests the directory's own name only.
ShouldProcessDir_LastSegment(dirpath, rdir, idirs) ==
    IF idirs # {}
    THEN IF dirpath = rdir
         THEN TRUE
         ELSE LET segs == Split(RelPath(dirpath, rdir))
              IN  segs[Len(segs)] \in idirs
    ELSE TRUE

\* A variant without the special case of the root.
ShouldProcessDir_RootLikeOthers(dirpath, rdir, idirs) ==
    IF idirs # {}
    THEN LET segs == Split(RelPath(dirpath, rdir))
         IN  \E i \in DOMAIN segs : segs[i] \in idirs
    ELSE TRUE

\* should_process_this_dir_based_on_included_dirs
ShouldProcessDir(dirpath, rdir, idirs) ==
    IF idirs # {}
    THEN IF dirpath = rdir
         THEN TRUE
         ELSE LET segs == Split(RelPath(dirpath, rdir))
              IN  \E i \in DOMAIN segs : segs[i] \in idirs
    ELSE TRUE

\* A variant that keeps every sub-directory.
KeptDirnames_All(ds, incl, edirs) == ds

\* dirnames after the directory filter: all of them in include mode, those
\* not excluded in exclude mode.
KeptDirnames(ds, incl, edirs) ==
    IF incl THEN ds ELSE SelectSeq(ds, LAMBDA c : <<c[Len(c)]>> \notin edirs)

\* A variant that takes no entry for a link.
IsLink_Never(f) == FALSE

\* os.path.islink of a file entry.
IsLink(f) == f.kind = "link"

\* A variant that takes every file in include mode.
FileDecision_TakeAll(filename, incl, idirs, ifiles, efiles) ==
    IF incl THEN "take"
    ELSE IF filename \in efiles THEN "Skipping excluded file" ELSE "take"

\* A variant that consults excluded_files in include mode as well.
FileDecision_ExcludedInInclude(filename, incl, idirs, ifiles, efiles) ==
    IF filename \in efiles THEN "Skipping excluded file"
    ELSE IF incl /\ ifiles # {} /\ filename \notin ifiles
         THEN "Skipping non-included file"
         ELSE "take"

\* The decision of the filter loop on one file name that is no link:
\* "take", or the status message of the skip, or "pass".
FileDecision(filename, incl, idirs, ifiles, efiles) ==
    IF incl
    THEN IF ifiles # {}
         THEN IF filename \in ifiles THEN "take" ELSE "Skipping non-included file"
         ELSE IF idirs # {} THEN "take" ELSE "pass"
    ELSE IF filename \in efiles THEN "Skipping excluded file" ELSE "take"

\* The filter loop over filenames: files_to_process.
RECURSIVE FilesToProcess(_, _, _, _, _)
FilesToProcess(fseq, incl, idirs, ifiles, efiles) ==
    IF fseq = <<>> THEN <<>>
    ELSE LET f == Head(fseq)
         IN  (IF ~IsLink(f) /\ FileDecision(<<f.name>>, incl, idirs, ifiles, efiles) = "take"
              THEN <<f>> ELSE <<>>)
             \o FilesToProcess(Tail(fseq), incl, idirs, ifiles, efiles)

\* The status messages of the filter loop.
RECURSIVE FilterMessages(_, _, _, _, _, _)
FilterMessages(fseq, reldir, incl, idirs, ifiles, efiles) ==
    IF fseq = <<>> THEN <<>>
    ELSE LET f == Head(fseq)
             rel == join(reldir, f.name)
             dec == FileDecision(<<f.name>>, incl, idirs, ifiles, efiles)
         IN  (IF IsLink(f) THEN <<Msg("Skipping symbolic link", rel)>>
              ELSE IF dec \in {"take", "pass"} THEN <<>>
              ELSE <<Msg(dec, rel)>>)
             \o FilterMessages(Tail(fseq), reldir, incl, idirs, ifiles, efiles)

\* open(file_path, 'r', encoding='utf-8') and read(): "ok" or the exception.
ReadOutcome(f) ==
    CASE f.kind = "bin" -> "UnicodeDecodeError"
      [] f.kind = "gone" -> "Exception"
      [] OTHER -> "ok"

\* A variant that gives up the directory's remaining files at the first file
\* that cannot be read.
RECURSIVE ProcessContent_StopAtFailure(_, _, _)
ProcessContent_StopAtFailure(fseq, dirpath, rdir) ==
    IF fseq = <<>> THEN <<>>
    ELSE LET f == Head(fseq)
             rel == RelPath(join(dirpath, f.name), rdir)
         IN  IF ReadOutcome(f) = "ok"
             THEN Block(rel, Content(f))
                  \o ProcessContent_StopAtFailure(Tail(fseq), dirpath, rdir)
             ELSE <<>>

\* The fragments the processing loop appends.
RECURSIVE ProcessContent(_, _, _)
ProcessContent(fseq, dirpath, rdir) ==
    IF fseq = <<>> THEN <<>>
    ELSE LET f == Head(fseq)
             rel == RelPath(join(dirpath, f.name), rdir)
         IN  (IF ReadOutcome(f) = "ok" THEN Block(rel, Content(f)) ELSE <<>>)
             \o ProcessContent(Tail(fseq), dirpath, rdir)

\* The status messages of the processing loop.
RECURSIVE ProcessMessages(_, _, _)
ProcessMessages(fseq, dirpath, rdir) ==
    IF fseq = <<>> THEN <<>>
    ELSE LET f == Head(fseq)
             rel == RelPath(join(dirpath, f.name), rdir)
         IN  <<Msg(CASE ReadOutcome(f) = "ok" -> "Included file"
                     [] ReadOutcome(f) = "UnicodeDecodeError" ->
                            "Skipping binary or undecodable file"
                     [] OTHER -> "Error reading file", rel)>>
             \o ProcessMessages(Tail(fseq), dirpath, rdir)

\* The messages before the validation (lines 27 to 42).
ModeMessages(edirs, efiles, idirs, ifiles) ==
    <<Msg("Starting to combine files", <<>>)>>
    \o (IF UseIncludeMode(idirs, ifiles)
        THEN <<Msg("Running in INCLUDE MODE.", <<>>)>>
             \o (IF idirs # {} THEN <<Msg("Including directories", <<>>)>> ELSE <<>>)
             \o (IF ifiles # {} THEN <<Msg("Including files", <<>>)>> ELSE <<>>)
             \o <<Msg("Exclusion lists will be ignored in INCLUDE MODE.", <<>>)>>
        ELSE <<Msg("Running in EXCLUDE MODE.", <<>>),
               Msg("Excluding directories", <<>>),
               Msg("Excluding files", <<>>)>>)

\* The call, up to the validation.
Call(edirs, efiles, idirs, ifiles) ==
    /\ root_dir' = CombineRoot
    /\ excluded_dirs_list' = edirs
    /\ excluded_files_list' = efiles
    /\ included_dirs_list' = idirs
    /\ included_files_list' = ifiles
    /\ use_include_mode' = UseIncludeMode(idirs, ifiles)
    /\ combined_content' = <<>>
    /\ status' = ModeMessages(edirs, efiles, idirs, ifiles)
    /\ result' = "none"
    /\ cwalk' = <<>>
    /\ yielded' = {}
    /\ descended' = {}
    /\ cpc' = "validate"

\* The first call, with lists taken from the form.
StartCombine ==
    /\ cpc = "setup"
    /\ \E edirs \in ExclDirChoices, efiles \in ExclFileChoices,
          idirs \in InclDirChoices, ifiles \in InclFileChoices :
          Call(edirs, efiles, idirs, ifiles)
    /\ output_full_path' = OutsidePath
    /\ UNCHANGED <<appVars, scanVars, fs, outfile, prev_outfile>>

\* The first call with the output file directly in the root, as the form's
\* defaults have it.
StartCombineInRoot ==
    /\ cpc = "setup"
    /\ \E edirs \in ExclDirChoices, efiles \in ExclFileChoices,
          idirs \in InclDirChoices, ifiles \in InclFileChoices :
          Call(edirs, efiles, idirs, ifiles)
    /\ output_full_path' = InsidePath
    /\ UNCHANGED <<appVars, scanVars, fs, outfile, prev_outfile>>

\* A second call with the arguments of the first, which succeeded, and no
\* other change to the file system.
CombineRepeat ==
    /\ cpc = "done"
    /\ result = "True"
    /\ prev_outfile = <<>>
    /\ Call(excluded_dirs_list, excluded_files_list,
            included_dirs_list, included_files_list)
    /\ prev_outfile' = outfile
    /\ UNCHANGED <<appVars, scanVars, fs, outfile, output_full_path>>

\* A second call on the same tree after a call that succeeded, the exclusion
\* fields edited in between. Calls are considered in pairs: prev_outfile
\* holds the output of the first call of the pair.
CombineAgain ==
    /\ cpc = "done"
    /\ result = "True"
    /\ prev_outfile = <<>>
    /\ \E edirs \in ExclDirChoices, efiles \in ExclFileChoices :
          Call(edirs, efiles, included_dirs_list, included_files_list)
    /\ prev_outfile' = outfile
    /\ UNCHANGED <<appVars, scanVars, fs, outfile, output_full_path>>

\* os.path.isdir(root_dir) fails: the message and return False.
CombineInvalidRoot ==
    /\ cpc = "validate"
    /\ fs = NoTree
    /\ status' = Append(status, Msg("Error: Project root directory not found", <<>>))
    /\ result' = "False"
    /\ cpc' = "done"
    /\ UNCHANGED <<appVars, scanVars, fs, root_dir, excluded_dirs_list, excluded_files_list,
                   included_dirs_list, included_files_list, use_include_mode,
                   cwalk, combined_content, outfile, yielded, descended,
                   prev_outfile, output_full_path>>

\* A variant that goes on to the walk after os.makedirs failed.
CombineOutputDir_FailContinues ==
    /\ cpc = "validate"
    /\ \E outcome \in {"exists", "created", "fails"} :
          /\ status' = IF outcome = "exists" THEN status
                        ELSE Append(status,
                                    Msg(IF outcome = "created"
                                        THEN "Created output directory"
                                        ELSE "Error creating output directory", <<>>))
          /\ cwalk' = << <<>> >>
          /\ cpc' = "walk"
          /\ UNCHANGED result
    /\ UNCHANGED <<appVars, scanVars, fs, root_dir, excluded_dirs_list, excluded_files_list,
                   included_dirs_list, included_files_list, use_include_mode,
                   combined_content, outfile, yielded, descended, prev_outfile,
                   output_full_path>>

\* The output directory: it exists, or os.makedirs creates it, or fails.
CombineOutputDir ==
    /\ cpc = "validate"
    /\ \E outcome \in {"exists", "created", "fails"} :
          /\ dirname(output_full_path) = root_dir => outcome = "exists"
          /\ CASE outcome = "exists" ->
                     /\ cwalk' = << <<>> >>
                     /\ cpc' = "walk"
                     /\ UNCHANGED <<status, result>>
               [] outcome = "created" ->
                     /\ status' = Append(status, Msg("Created output directory", <<>>))
                     /\ cwalk' = << <<>> >>
                     /\ cpc' = "walk"
                     /\ UNCHANGED result
               [] OTHER ->
                     /\ status' = Append(status, Msg("Error creating output directory", <<>>))
                     /\ result' = "False"
                     /\ cpc' = "done"
                     /\ UNCHANGED cwalk
    /\ UNCHANGED <<appVars, scanVars, fs, root_dir, excluded_dirs_list, excluded_files_list,
                   included_dirs_list, included_files_list, use_include_mode,
                   combined_content, outfile, yielded, descended, prev_outfile,
                   output_full_path>>

\* One iteration of the loop over os.walk: the directory filter, the file
\* filter and the processing of the files kept.
CombineVisitDir ==
    /\ cpc = "walk"
    /\ cwalk # <<>>
    /\ LET d == Head(cwalk)
           dirpath == AbsPath(root_dir, d)
           relative_dirpath == RelPath(dirpath, root_dir)
           take == FilesToProcess(FilesOf(d), use_include_mode, included_dirs_list,
                                  included_files_list, excluded_files_list)
       IN  /\ yielded' = yielded \cup {d}
           /\ IF use_include_mode
                 /\ ~ShouldProcessDir(dirpath, root_dir, included_dirs_list)
              THEN /\ cwalk' = Tail(cwalk)
                   /\ UNCHANGED <<combined_content, status, descended>>
              ELSE /\ cwalk' = KeptDirnames(ChildDirs(d), use_include_mode,
                                            excluded_dirs_list) \o Tail(cwalk)
                   /\ descended' = descended \cup {d}
                   /\ status' = status
                         \o FilterMessages(FilesOf(d), relative_dirpath,
                                           use_include_mode, included_dirs_list,
                                           included_files_list, excluded_files_list)
                         \o ProcessMessages(take, dirpath, root_dir)
                   /\ combined_content' = combined_content
                         \o ProcessContent(take, dirpath, root_dir)
    /\ UNCHANGED <<appVars, scanVars, fs, cpc, root_dir, excluded_dirs_list,
                   excluded_files_list, included_dirs_list, included_files_list,
                   use_include_mode, result, outfile, prev_outfile,
                   output_full_path>>

\* An exception out of an iteration of the walk (os.path.relpath, islink, a
\* status callback, ...): the except clause reports it and returns False.
CombineWalkRaises ==
    /\ cpc = "walk"
    /\ cwalk # <<>>
    /\ status' = Append(status, Msg("An unexpected error occurred", <<>>))
    /\ result' = "False"
    /\ cpc' = "done"
    /\ UNCHANGED <<appVars, scanVars, fs, root_dir, excluded_dirs_list, excluded_files_list,
                   included_dirs_list, included_files_list, use_include_mode,
                   cwalk, combined_content, outfile, yielded, descended,
                   prev_outfile, output_full_path>>

\* The entry of the output file in the listing of the root.
OutEntry ==
    [dir |-> <<>>, name |-> output_full_path[Len(output_full_path)],
     kind |-> "out", size |-> 0]

\* The tree once open(output_full_path, 'w') has created or truncated the
\* file: it has gained an entry if the file lies directly in the root.
TreeWithOutput(t, out) ==
    IF dirname(output_full_path) = root_dir /\ out # <<>>
    THEN [t EXCEPT !.files = @ \cup {OutEntry}]
    ELSE t

\* A variant that returns True whatever became of the write.
CombineWrite_AlwaysTrue ==
    /\ cpc = "walk"
    /\ cwalk = <<>>
    /\ \/ outfile' = <<combined_content>>
       \/ outfile' \in {outfile, << <<>> >>}
    /\ status' = Append(status, Msg("Successfully combined all files", <<>>))
    /\ result' = "True"
    /\ cpc' = "done"
    /\ fs' = TreeWithOutput(fs, outfile')
    /\ UNCHANGED <<appVars, scanVars, root_dir, excluded_dirs_list, excluded_files_list,
                   included_dirs_list, included_files_list, use_include_mode,
                   cwalk, combined_content, yielded, descended, prev_outfile,
                   output_full_path>>

\* A variant that leaves the output file alone when nothing was collected.
CombineWrite_SkipEmpty ==
    /\ cpc = "walk"
    /\ cwalk = <<>>
    /\ \/ /\ outfile' = IF combined_content = <<>> THEN outfile
                        ELSE <<combined_content>>
          /\ status' = Append(status, Msg("Successfully combined all files", <<>>))
          /\ result' = "True"
       \/ /\ outfile' \in {outfile, << <<>> >>}
          /\ status' = Append(status, Msg("An unexpected error occurred", <<>>))
          /\ result' = "False"
    /\ cpc' = "done"
    /\ fs' = TreeWithOutput(fs, outfile')
    /\ UNCHANGED <<appVars, scanVars, root_dir, excluded_dirs_list, excluded_files_list,
                   included_dirs_list, included_files_list, use_include_mode,
                   cwalk, combined_content, yielded, descended, prev_outfile,
                   output_full_path>>

\* After the walk: the output file is opened and written, or that raises.
CombineWrite ==
    /\ cpc = "walk"
    /\ cwalk = <<>>
    /\ \/ /\ outfile' = <<combined_content>>
          /\ status' = Append(status, Msg("Successfully combined all files", <<>>))
          /\ result' = "True"
       \/ /\ outfile' \in {outfile, << <<>> >>}
          /\ status' = Append(status, Msg("An unexpected error occurred", <<>>))
          /\ result' = "False"
    /\ cpc' = "done"
    /\ fs' = TreeWithOutput(fs, outfile')
    /\ UNCHANGED <<appVars, scanVars, root_dir, excluded_dirs_list, excluded_files_list,
                   included_dirs_list, included_files_list, use_include_mode,
                   cwalk, combined_content, yielded, descended, prev_outfile,
                   output_full_path>>

CombEnv ==
    /\ cpc = "setup"
    /\ \/ EnvMkdir(FALSE, MaxDirs)
       \/ EnvCreateFile(Kinds, CombSizes, MaxCombFiles)
    /\ UNCHANGED <<appVars, scanVars, combVars>>

\* The worker never constructed.
ScanIdle ==
    /\ path = <<>>
    /\ root_is_dir = FALSE
    /\ pc = "setup"
    /\ is_cancelled = FALSE
    /\ total_scanned_items = 0
    /\ walk_stack = <<>>
    /\ root = <<>>
    /\ files = <<>>
    /\ file_details = <<>>
    /\ folder_direct_file_sizes = <<>>
    /\ all_scanned_paths = {}
    /\ folder_aggregate_sizes = <<>>
    /\ sorted_paths = <<>>
    /\ folder_data = <<>>
    /\ events = <<>>
    /\ finished_args = <<>>
    /\ cancel_at = "never"

InitCombine ==
    /\ AppConstructed
    /\ fs = NoTree
    /\ ScanIdle
    /\ CombIdle

NextCombine ==
    \/ CombEnv
    \/ StartCombine
    \/ CombineAgain
    \/ CombineInvalidRoot
    \/ CombineOutputDir
    \/ CombineVisitDir
    \/ CombineWalkRaises
    \/ CombineWrite

SpecCombine == InitCombine /\ [][NextCombine]_vars

\* One call on a shallow tree with more files in it.
CombFilesEnv ==
    /\ cpc = "setup"
    /\ \/ /\ fs.dirs = {<<>>}
          /\ \E n \in DirNames :
                fs' = [fs EXCEPT !.dirs = @ \cup {<<n>>},
                                 !.bulk = [e \in {<<>>, <<n>>} |->
                                              IF e = <<n>> THEN 0 ELSE fs.bulk[e]]]
       \/ EnvCreateFile(Kinds, CombSizes, MaxFlatFiles)
    /\ UNCHANGED <<appVars, scanVars, combVars>>

NextCombineFiles ==
    \/ CombFilesEnv
    \/ StartCombine
    \/ CombineInvalidRoot
    \/ CombineOutputDir
    \/ CombineVisitDir
    \/ CombineWalkRaises
    \/ CombineWrite

SpecCombineFiles == InitCombine /\ [][NextCombineFiles]_vars

\* Two calls with the same arguments and the output file in the root.
NextCombineInRoot ==
    \/ CombEnv
    \/ StartCombineInRoot
    \/ CombineRepeat
    \/ CombineInvalidRoot
    \/ CombineOutputDir
    \/ CombineVisitDir
    \/ CombineWalkRaises
    \/ CombineWrite

SpecCombineInRoot == InitCombine /\ [][NextCombineInRoot]_vars

\* ------------------------------------------- properties of the combiner
CombineSucceeded == cpc = "done" /\ result = "True"

\* The path of a file entry relative to the root, as the blocks name it.
RelFilePath(f) == RelPath(join(AbsPath(root_dir, f.dir), f.name), root_dir)

\* The file has a block in the fragment sequence.
HasBlock(frags, f) ==
    \E k \in DOMAIN frags : frags[k] = [t |-> "START FILE", v |-> RelFilePath(f)]

InOutput(f) == outfile # <<>> /\ HasBlock(outfile[1], f)

\* Some directory on the way from the root to d (d included) is named in names.
HasSegmentIn(d, names) == \E i \in DOMAIN d : <<d[i]>> \in names

\* d is e or lies beneath it.
Beneath(d, e) == Len(e) <= Len(d) /\ SubSeq(d, 1, Len(e)) = e

\* A status message names a file of directory d.
Mentioned(f) == \E k \in DOMAIN status : status[k].v = RelFilePath(f)

\* C8: with non-empty included_dirs and empty included_files, a readable
\* regular file appears in the output iff it lies under a directory, at any
\* depth below the root, whose basename is in included_dirs.
C8_IncludedSubtreesExactly ==
    (CombineSucceeded /\ included_dirs_list # {} /\ included_files_list = {})
    => \A f \in fs.files :
          f.kind = "reg" => (InOutput(f) <=> HasSegmentIn(f.dir, included_dirs_list))

C10_ExcludedListsIgnored ==
    (CombineSucceeded /\ use_include_mode /\ prev_outfile # <<>>)
    => outfile = prev_outfile

\* The second run of a pair had both excluded lists set, and its output holds
\* a file named in excluded_files and a file of a directory named in
\* excluded_dirs.
C10_Witness ==
    /\ CombineSucceeded
    /\ use_include_mode
    /\ prev_outfile # <<>>
    /\ \E f \in fs.files : InOutput(f) /\ <<f.name>> \in excluded_files_list
    /\ \E f \in fs.files : InOutput(f) /\ HasSegmentIn(f.dir, excluded_dirs_list)

\* The messages of the processing loop: one of them names every file that
\* was selected (put into files_to_process).
ProcessingMessages ==
    {"Included file", "Skipping binary or undecodable file", "Error reading file"}

StatusOf(f) == {status[k].m : k \in {j \in DOMAIN status : status[j].v = RelFilePath(f)}}

Selected(f) == StatusOf(f) \cap ProcessingMessages # {}

\* C11: in include mode, in a descended directory, a file that is no
\* symbolic link is selected for processing iff included_files is empty or
\* holds its basename.
C11_IncludeFileDecision ==
    use_include_mode
    => \A f \in fs.files :
          (f.dir \in descended /\ f.kind # "link")
          => (Selected(f) <=> (included_files_list = {}
                               \/ <<f.name>> \in included_files_list))

\* A descended directory with one file selected by included_files and one
\* file left out by it.
C11_Witness ==
    /\ CombineSucceeded
    /\ use_include_mode
    /\ included_files_list # {}
    /\ \E f, g \in fs.files :
          /\ f.dir = g.dir /\ f.dir \in descended
          /\ f.kind # "link" /\ g.kind # "link"
          /\ Selected(f) /\ ~Selected(g)

\* A regular file that can be read as text.
Readable(f) == f.kind = "reg"

FilterRelPath(f) == join(RelPath(AbsPath(root_dir, f.dir), root_dir), f.name)

\* The messages that name the file, by either path, as positions of status.
MessagesOn(f) ==
    {k \in DOMAIN status : status[k].v \in {RelFilePath(f), FilterRelPath(f)}}

\* C13: in both modes a symbolic link among the files of a visited directory
\* is never opened and never written: its only trace is one 'Skipping
\* symbolic link' message.
C13_SymlinkSkipped ==
    \A f \in fs.files :
       f.kind = "link"
       => /\ ~HasBlock(combined_content, f)
          /\ ~InOutput(f)
          /\ \A k \in MessagesOn(f) : status[k].m = "Skipping symbolic link"
          /\ f.dir \in descended => Cardinality(MessagesOn(f)) = 1
          /\ f.dir \notin descended => MessagesOn(f) = {}

\* A successful run that skipped a link and wrote the file beside it.
C13_Witness ==
    /\ CombineSucceeded
    /\ \E f, g \in fs.files :
          /\ f.kind = "link" /\ f.dir \in descended /\ ~InOutput(f)
          /\ g.dir = f.dir /\ InOutput(g)

\* The two messages of a configuration error.
ConfigErrors ==
    {"Error: Project root directory not found", "Error creating output directory"}

ConfigErrorsAt == {k \in DOMAIN status : status[k].m \in ConfigErrors}

\* C14: a configuration error ends the call: it returns False, the error is
\* the one and last message about it, no directory was walked and the output
\* file is as it was before the call.
C14_ConfigErrorIsFatal ==
    ConfigErrorsAt # {}
    => /\ cpc = "done"
       /\ result = "False"
       /\ ConfigErrorsAt = {Len(status)}
       /\ yielded = {}
       /\ cwalk = <<>>
       /\ combined_content = <<>>
       /\ outfile = prev_outfile

\* The output directory could not be created for a tree that holds a file.
C14_Witness ==
    /\ cpc = "done"
    /\ result = "False"
    /\ status[Len(status)].m = "Error creating output directory"
    /\ fs.files # {}
    /\ outfile = <<>>

\* The files of the tree below d in the order of a top-down walk: the files
\* of a directory, then its sub-directories one after the other.
RECURSIVE TraversalFrom(_)
RECURSIVE TraversalOfAll(_)
TraversalFrom(d) == FilesOf(d) \o TraversalOfAll(ChildDirs(d))
TraversalOfAll(ds) ==
    IF ds = <<>> THEN <<>> ELSE TraversalFrom(Head(ds)) \o TraversalOfAll(Tail(ds))

Traversal == TraversalFrom(<<>>)

PositionOf(f) == CHOOSE i \in DOMAIN Traversal : Traversal[i] = f

\* The file decision of the mode in force says to take the file.
ShouldSelect(f) ==
    /\ f.kind # "link"
    /\ IF use_include_mode
       THEN included_files_list = {} \/ <<f.name>> \in included_files_list
       ELSE <<f.name>> \notin excluded_files_list

\* A fragment of any kind that names the file.
FragmentsOn(f) ==
    {k \in DOMAIN combined_content : combined_content[k].v = RelFilePath(f)}

\* C15: a selected file that cannot be read adds no fragment and is reported
\* by one message; the walk goes on: at the end every file the filter takes
\* in a visited directory was processed, and written if it could be read.
C15_ReadFailureNotFatal ==
    /\ \A f \in fs.files :
          (Selected(f) /\ ~Readable(f))
          => /\ FragmentsOn(f) = {}
             /\ Cardinality(MessagesOn(f)) = 1
             /\ StatusOf(f) \subseteq {"Skipping binary or undecodable file",
                                       "Error reading file"}
    /\ CombineSucceeded
       => /\ cwalk = <<>>
          /\ \A g \in fs.files :
                (g.dir \in descended /\ ShouldSelect(g))
                => /\ Selected(g)
                   /\ Readable(g) => HasBlock(combined_content, g)

\* A successful run in which a file that could not be read was followed, in
\* traversal order, by a file that was written.
C15_Witness ==
    /\ CombineSucceeded
    /\ \E f, g \in fs.files :
          /\ Selected(f) /\ ~Readable(f)
          /\ PositionOf(f) < PositionOf(g)
          /\ InOutput(g)

\* One framed block for each file of the sequence that was selected and could
\* be read, in the order of the sequence.
RECURSIVE FramedBlocks(_)
FramedBlocks(fseq) ==
    IF fseq = <<>> THEN <<>>
    ELSE LET f == Head(fseq)
         IN  (IF Selected(f) /\ Readable(f)
              THEN <<[t |-> "START FILE", v |-> RelFilePath(f)],
                     [t |-> "content", v |-> [i \in 1..f.size |-> "c"]],
                     [t |-> "END FILE", v |-> RelFilePath(f)]>>
              ELSE <<>>)
             \o FramedBlocks(Tail(fseq))

\* C16: on success the output is exactly one framed block (START delimiter,
\* content, END delimiter with the same relative path) for every selected
\* file that was read, in traversal order, a file of 0 bytes included.
C16_OutputIsFramedBlocks ==
    CombineSucceeded => outfile = <<FramedBlocks(Traversal)>>

\* An output of two blocks, one of them for a file of 0 bytes.
C16_Witness ==
    /\ CombineSucceeded
    /\ Len(outfile[1]) = 6
    /\ \E f \in fs.files : f.size = 0 /\ Readable(f) /\ InOutput(f)

\* C17: the call returns True only after the walk ran to its end and the one
\* write of the assembled fragments succeeded; after an exception of the walk
\* or of the write it returns False with the report as last message; until
\* the walk has ended the output file is as it was before the call.
C17_TrueOnlyAfterWrite ==
    /\ result = "True"
       => /\ cpc = "done"
          /\ cwalk = <<>>
          /\ outfile = <<combined_content>>
          /\ status[Len(status)].m = "Successfully combined all files"
          /\ \A k \in DOMAIN status : status[k].m # "An unexpected error occurred"
    /\ (\E k \in DOMAIN status : status[k].m = "An unexpected error occurred")
       => /\ cpc = "done"
          /\ result = "False"
          /\ status[Len(status)].m = "An unexpected error occurred"
    /\ cpc \in {"validate", "walk"} => outfile = prev_outfile
    /\ (cpc = "done" /\ cwalk # <<>>) => (result = "False" /\ outfile = prev_outfile)

\* A run whose walk ended and whose write failed, and so returned False, for
\* a tree that holds a readable file.
C17_Witness ==
    /\ cpc = "done"
    /\ result = "False"
    /\ cwalk = <<>>
    /\ yielded # {}
    /\ combined_content # <<>>
    /\ status[Len(status)].m = "An unexpected error occurred"

\* C18: the second of two successful calls with the same arguments, nothing
\* else having changed the file system in between, leaves the output file as
\* the first call wrote it.
C18_Idempotent ==
    (CombineSucceeded /\ prev_outfile # <<>>) => outfile = prev_outfile

\* ------------------------------------ further properties of the scan
\* C19: run() on a root that is no directory emits one error event and
\* nothing else: no progress, no finished, no item counted, nothing recorded.
C19_InvalidRootOnlyError ==
    (pc # "setup" /\ ~root_is_dir)
    => /\ pc \in {"start", "done"}
       /\ events = IF pc = "done" THEN <<Error("not a valid directory")>> ELSE <<>>
       /\ total_scanned_items = 0
       /\ finished_args = <<>>
       /\ file_details = <<>>
       /\ all_scanned_paths = {}
       /\ folder_direct_file_sizes = <<>>
       /\ folder_data = <<>>

\* run() has returned for a root that is no directory.
C19_Witness ==
    /\ pc = "done"
    /\ ~root_is_dir
    /\ Len(events) = 1
    /\ events[1].sig = "error"

\* C20: the scan skips symbolic links: a link among the files has no file
\* record and adds nothing to the size of the root folder (nor, then, to any
\* folder's), and only real directories of the tree are walked.
C20_ScanSkipsSymlinks ==
    HasFinished
    => /\ \A f \in fs.files :
             f.kind = "link"
             => \A i \in DOMAIN DfFiles :
                   DfFiles[i].Path # join(AbsPath(path, f.dir), f.name)
       /\ \A i \in FolderRowsAt(path) :
             DfFolders[i].Size = SumOfSet({f \in fs.files : f.kind = "reg"})
       /\ all_scanned_paths \subseteq {AbsPath(path, d) : d \in fs.dirs}

\* C21: a file whose stat fails never aborts the scan and never produces an
\* error event: the only error events are those of cancellation and of an
\* invalid root; the file gets no file record and adds nothing to the size
\* of its folder, and the files listed after it are still recorded.
C21_StatFailureSkipsFile ==
    /\ \A i \in DOMAIN events :
          events[i].sig = "error"
          => \/ IsCancelError(events[i]) /\ is_cancelled
             \/ events[i].msg = "not a valid directory" /\ ~root_is_dir
    /\ \A f \in fs.files :
          f.kind = "gone"
          => \A i \in DOMAIN file_details :
                file_details[i].Path # join(AbsPath(path, f.dir), f.name)
    /\ \A p \in DOMAIN folder_direct_file_sizes :
          folder_direct_file_sizes[p] = SumSize(SelectSeq(file_details,
                                            LAMBDA r : r.Parent = p))
    /\ HasFinished
       => /\ \A f \in fs.files :
                f.kind = "reg"
                => \E i \in DOMAIN DfFiles :
                      DfFiles[i].Path = join(AbsPath(path, f.dir), f.name)
          /\ \A i \in FolderRowsAt(path) :
                DfFolders[i].Size = SumOfSet({f \in fs.files : f.kind # "gone"})

\* C21 witness: a finished scan of a directory in which a file whose stat
\* fails is listed before a file of non-zero size that was recorded.
C21_Witness ==
    /\ HasFinished
    /\ \E f, g \in fs.files :
          /\ f.kind = "gone" /\ f.name = "x"
          /\ g.dir = f.dir /\ g.name = "y" /\ g.size = 2
          /\ \E i \in DOMAIN DfFiles :
                DfFiles[i].Path = join(AbsPath(path, g.dir), g.name)

\* The sum of the cumulative sizes held for the directories of D.
RECURSIVE SumAggregate(_)
SumAggregate(D) ==
    IF D = {} THEN 0
    ELSE LET d == CHOOSE e \in D : TRUE
         IN  folder_aggregate_sizes[AbsPath(path, d)] + SumAggregate(D \ {d})

\* Path p is a proper ancestor of path q.
IsAncestor(p, q) ==
    /\ p # q
    /\ startswith(q, IF p[Len(p)] = sep THEN p ELSE p \o <<sep>>)

\* The aggregation order places every directory before each of its ancestors.
DescendantsFirst ==
    \A i, j \in DOMAIN sorted_paths :
        IsAncestor(sorted_paths[i], sorted_paths[j]) => j < i

\* C23: in the aggregation order every directory appears strictly before
\* each of its ancestors, and the fold adds the cumulative size of each
\* directory other than the root to its immediate parent exactly once, after
\* the directory's own descendants were folded into it, and adds the root to
\* nothing: when the fold is over, every directory holds its direct size plus
\* the cumulative sizes of its immediate sub-directories, and no other path
\* holds a size.
C23_FoldChildrenIntoParent ==
    /\ pc = "aggregate" => DescendantsFirst
    /\ pc = "complete"
       => /\ DOMAIN folder_aggregate_sizes = {AbsPath(path, d) : d \in fs.dirs}
          /\ \A d \in fs.dirs :
                folder_aggregate_sizes[AbsPath(path, d)]
                    = DictGet(folder_direct_file_sizes, AbsPath(path, d), 0)
                      + SumAggregate({c \in fs.dirs :
                                         Len(c) = Len(d) + 1 /\ Front(c) = d})

\* C23 witness: the fold is over for a tree two levels deep whose only file,
\* of non-zero size, lies at the bottom: its size was carried up twice.
C23_Witness ==
    /\ pc = "complete"
    /\ \E f \in fs.files :
          /\ fs.files = {f} /\ Len(f.dir) = 2 /\ f.kind = "reg" /\ f.size = 2
          /\ folder_aggregate_sizes[path] = 2
          /\ folder_aggregate_sizes[AbsPath(path, Front(f.dir))] = 2

\* C24: for every scan root, the folder records emitted by finished are
\* exactly one record for the root and one for every visited directory,
\* those without direct files included, and none for a path outside the
\* hierarchy of the root.
C24_OneRecordPerVisitedDirectory ==
    HasFinished
    => /\ {DfFolders[i].Path : i \in DOMAIN DfFolders}
              = {AbsPath(path, d) : d \in fs.dirs}
       /\ \A d \in fs.dirs : Cardinality(FolderRowsAt(AbsPath(path, d))) = 1

\* The directories os.walk has yielded so far.
Visited == {d \in fs.dirs : AbsPath(path, d) \in all_scanned_paths}

\* The entries listed in the directories of D: sub-directory entries and
\* file entries.
RECURSIVE ListedEntries(_)
ListedEntries(D) ==
    IF D = {} THEN 0
    ELSE LET d == CHOOSE e \in D : TRUE
         IN  LenDirs(d) + Len(FilesOf(d)) + ListedEntries(D \ {d})

\* The progress events of the walk phase.
WalkProgress == {i \in DOMAIN events : events[i].msg = "Scanning"}

\* C30: during the walk a progress event is emitted only at the end of a
\* visited directory and only when total_scanned_items is then an exact
\* multiple of progress_update_interval (0 included), so at most one per
\* visited directory; total_scanned_items counts every file entry, those
\* whose stat fails included, and every listed sub-directory exactly once.
C30_WalkProgressAtInterval ==
    /\ [](pc \in {"walk", "files"}
          => /\ total_scanned_items = ListedEntries(Visited) - Len(files)
             /\ Cardinality(WalkProgress)
                    <= Cardinality(Visited) - (IF pc = "files" THEN 1 ELSE 0))
    /\ [](HasFinished
          => /\ total_scanned_items = ListedEntries(fs.dirs)
             /\ Cardinality(WalkProgress) <= Cardinality(fs.dirs))
    /\ [][Len(events') > Len(events) /\ events'[Len(events')].msg = "Scanning"
          => /\ pc = "files" /\ files = <<>> /\ pc' = "walk"
             /\ total_scanned_items' = total_scanned_items
             /\ total_scanned_items % progress_update_interval = 0]_vars

\* C30 witness: a finished scan of one directory that lists 19999
\* sub-directory entries and one file whose stat fails, with the progress
\* event of the 20000th item.
C30_Witness ==
    /\ HasFinished
    /\ fs.dirs = {<<>>}
    /\ fs.bulk[<<>>] = 19999
    /\ \E f \in fs.files : fs.files = {f} /\ f.kind = "gone"
    /\ \E i \in WalkProgress : events[i].pct = 2

\* C28: a scan of a finite tree on a valid root that is never cancelled always
\* terminates with finished; the three events before finished are the
\* progress events 90, 99 and 100 in that order, and 100 is emitted exactly
\* once.
C28_TerminatesWithFinished ==
    /\ (pc = "start" /\ root_is_dir) ~> HasFinished
    /\ [](HasFinished
          => LET n == Len(events)
             IN  /\ n >= 4
                 /\ events[n] = Finished
                 /\ events[n - 1].sig = "progress" /\ events[n - 1].pct = 100
                 /\ events[n - 2].sig = "progress" /\ events[n - 2].pct = 99
                 /\ events[n - 3].sig = "progress" /\ events[n - 3].pct = 90
                 /\ Cardinality({i \in DOMAIN Percents : Percents[i] = 100}) = 1)

\* C28 witness: a finished, never cancelled scan of a tree with a
\* sub-directory, whose walk already reported its capped percentage.
C28_Witness ==
    /\ HasFinished
    /\ ~is_cancelled
    /\ Cardinality(fs.dirs) = 2
    /\ \E i \in WalkProgress : events[i].pct = ScanPhaseCap

\* ------------------------------------- further properties of the combiner
\* C26: in include mode with a non-empty included_dirs the root is always a
\* descended directory, so a file directly in the root that is no symbolic
\* link is selected: every such file when included_files is empty, the named
\* ones otherwise.
C26_RootAlwaysDescended ==
    (use_include_mode /\ included_dirs_list # {} /\ <<>> \in yielded)
    => /\ <<>> \in descended
       /\ \A f \in fs.files :
             (f.dir = <<>> /\ f.kind # "link")
             => (Selected(f) <=> (included_files_list = {}
                                  \/ <<f.name>> \in included_files_list))

\* C26 witness: a successful run with included_dirs naming no directory of
\* the tree and an empty included_files: the sub-directory was not descended,
\* and the file lying directly in the root is in the output.
C26_Witness ==
    /\ CombineSucceeded
    /\ included_dirs_list # {}
    /\ included_files_list = {}
    /\ \E d \in fs.dirs : d \notin descended
    /\ \E f \in fs.files : f.dir = <<>> /\ f.kind = "reg" /\ InOutput(f)

\* C27: on a valid root, a call whose walk selects or reads no file at all
\* still creates (or truncates) the output file, with empty content, and
\* returns True; every call whose final write succeeds replaces whatever the
\* file held before by what this call collected.
C27_EmptyOutputWritten ==
    /\ CombineSucceeded
       => /\ outfile # <<>>
          /\ outfile[1] = combined_content
          /\ (\A f \in fs.files : ~(Selected(f) /\ Readable(f)))
             => outfile[1] = <<>>
    /\ (/\ cpc = "done"
        /\ <<>> \in yielded
        /\ cwalk = <<>>
        /\ status[Len(status)].m # "An unexpected error occurred")
       => result = "True"

\* C27 witness: the second call of a pair, with the only file of the tree
\* now excluded: it returned True and left the output file, which held that
\* file's block, empty.
C27_Witness ==
    /\ CombineSucceeded
    /\ prev_outfile # <<>>
    /\ prev_outfile[1] # <<>>
    /\ fs.files # {}
    /\ outfile = << <<>> >>

\* ---------------------------------------------------- StorageAnalyzerApp
\* The window and its worker threads. The slots run in the main thread: a
\* signal emitted in a worker thread is queued for the thread of the window
\* and is handled there in the order of emission. A worker is seen from
\* outside: it emits progress, and ends with finished or with error. The
\* status label, the tables and the charts are left out.
DiskSource == 0

Post(e) == posted' = Append(posted, e)

\* A click on "Start Scan": start_file_folder_scan. With an invalid path it
\* warns and returns; otherwise it clears the results, resets the widgets,
\* creates the worker and starts its thread.
start_file_folder_scan ==
    /\ scan_button
    /\ Len(workers) < MaxScans
    /\ \E valid \in BOOLEAN :
          IF valid
          THEN /\ df_files_details' = NoWorker
               /\ df_folders_details' = NoWorker
               /\ current_scan_path' = NoWorker
               /\ progress_bar' = 0
               /\ scan_button' = FALSE
               /\ cancel_scan_button' = TRUE
               /\ save_files_csv_button' = FALSE
               /\ save_folders_csv_button' = FALSE
               /\ explorer_refresh_button' = FALSE
               /\ workers' = Append(workers, [alive |-> TRUE,
                                              is_cancelled |-> FALSE,
                                              delivered |-> "none"])
               /\ file_folder_scan_worker' = Len(workers) + 1
          ELSE UNCHANGED <<df_files_details, df_folders_details,
                           current_scan_path, progress_bar, scan_button,
                           cancel_scan_button, save_files_csv_button,
                           save_folders_csv_button, explorer_refresh_button,
                           workers, file_folder_scan_worker>>
    /\ UNCHANGED <<fs, scanVars, combVars, df_disk_info, disk_threads,
                   disk_refreshes, posted>>

\* A click on "Cancel Scan": cancel_file_folder_scan.
cancel_file_folder_scan ==
    /\ cancel_scan_button
    /\ IF file_folder_scan_worker # NoWorker
       THEN /\ workers' = [workers EXCEPT
                              ![file_folder_scan_worker].is_cancelled = TRUE]
            /\ cancel_scan_button' = FALSE
       ELSE UNCHANGED <<workers, cancel_scan_button>>
    /\ UNCHANGED <<fs, scanVars, combVars, scan_button, save_files_csv_button,
                   save_folders_csv_button, explorer_refresh_button,
                   progress_bar, df_disk_info, df_files_details,
                   df_folders_details, current_scan_path,
                   file_folder_scan_worker, disk_threads, disk_refreshes,
                   posted>>

\* A click on the disk tab's refresh button: refresh_disk_info starts a
\* thread on _run_disk_scan_worker.
refresh_disk_info ==
    /\ disk_refreshes < MaxRefreshes
    /\ disk_refreshes' = disk_refreshes + 1
    /\ disk_threads' = disk_threads + 1
    /\ UNCHANGED <<fs, scanVars, combVars, scan_button, cancel_scan_button,
                   save_files_csv_button, save_folders_csv_button,
                   explorer_refresh_button, progress_bar, df_disk_info,
                   df_files_details, df_folders_details, current_scan_path,
                   file_folder_scan_worker, workers, posted>>

\* A running FileFolderScanWorker emits progress.
WorkerProgress ==
    /\ Len(posted) < MaxPosted
    /\ \E w \in DOMAIN workers :
          /\ workers[w].alive
          /\ Post([src |-> w, sig |-> "progress", pct |-> ScanPhaseCap])
    /\ UNCHANGED <<fs, scanVars, combVars, scan_button, cancel_scan_button,
                   save_files_csv_button, save_folders_csv_button,
                   explorer_refresh_button, progress_bar, df_disk_info,
                   df_files_details, df_folders_details, current_scan_path,
                   file_folder_scan_worker, workers, disk_threads,
                   disk_refreshes>>

\* A running FileFolderScanWorker emits finished and its run() returns: it
\* was not cancelled, or cancel() came after its last check.
WorkerFinished ==
    /\ \E w \in DOMAIN workers :
          /\ workers[w].alive
          /\ workers' = [workers EXCEPT ![w].alive = FALSE]
          /\ Post([src |-> w, sig |-> "finished", pct |-> 100])
    /\ UNCHANGED <<fs, scanVars, combVars, scan_button, cancel_scan_button,
                   save_files_csv_button, save_folders_csv_button,
                   explorer_refresh_button, progress_bar, df_disk_info,
                   df_files_details, df_folders_details, current_scan_path,
                   file_folder_scan_worker, disk_threads, disk_refreshes>>

\* A running FileFolderScanWorker emits error and its run() returns: it saw
\* the cancellation, or its path is no directory any more.
WorkerError ==
    /\ \E w \in DOMAIN workers :
          /\ workers[w].alive
          /\ workers' = [workers EXCEPT ![w].alive = FALSE]
          /\ Post([src |-> w, sig |-> "error", pct |-> 0])
    /\ UNCHANGED <<fs, scanVars, combVars, scan_button, cancel_scan_button,
                   save_files_csv_button, save_folders_csv_button,
                   explorer_refresh_button, progress_bar, df_disk_info,
                   df_files_details, df_folders_details, current_scan_path,
                   file_folder_scan_worker, disk_threads, disk_refreshes>>

\* _run_disk_scan_worker: DiskScanWorker.run() emits finished, or error when
\* psutil or pandas raised.
DiskWorkerEnds ==
    /\ disk_threads > 0
    /\ disk_threads' = disk_threads - 1
    /\ \E s \in {"finished", "error"} :
          Post([src |-> DiskSource, sig |-> s, pct |-> 0])
    /\ UNCHANGED <<fs, scanVars, combVars, scan_button, cancel_scan_button,
                   save_files_csv_button, save_folders_csv_button,
                   explorer_refresh_button, progress_bar, df_disk_info,
                   df_files_details, df_folders_details, current_scan_path,
                   file_folder_scan_worker, workers, disk_refreshes>>

\* The slot of progress.
update_scan_progress ==
    /\ posted # <<>>
    /\ Head(posted).sig = "progress"
    /\ progress_bar' = Head(posted).pct
    /\ posted' = Tail(posted)
    /\ UNCHANGED <<fs, scanVars, combVars, scan_button, cancel_scan_button,
                   save_files_csv_button, save_folders_csv_button,
                   explorer_refresh_button, df_disk_info, df_files_details,
                   df_folders_details, current_scan_path,
                   file_folder_scan_worker, workers, disk_threads,
                   disk_refreshes>>

\* The slot of a FileFolderScanWorker's finished. The folder data of a
\* finished scan holds the record of the root, so the early return for two
\* empty frames is not taken.
update_scanner_tab_on_completion ==
    /\ posted # <<>>
    /\ Head(posted).sig = "finished"
    /\ Head(posted).src # DiskSource
    /\ df_files_details' = Head(posted).src
    /\ df_folders_details' = Head(posted).src
    /\ current_scan_path' = Head(posted).src
    /\ scan_button' = TRUE
    /\ cancel_scan_button' = FALSE
    /\ progress_bar' = 100
    /\ save_files_csv_button' = TRUE
    /\ save_folders_csv_button' = TRUE
    /\ explorer_refresh_button' = TRUE
    /\ workers' = [workers EXCEPT ![Head(posted).src].delivered = "finished"]
    /\ posted' = Tail(posted)
    /\ UNCHANGED <<fs, scanVars, combVars, df_disk_info,
                   file_folder_scan_worker, disk_threads, disk_refreshes>>

\* The slot of DiskScanWorker's finished.
update_disk_tab ==
    /\ posted # <<>>
    /\ Head(posted).sig = "finished"
    /\ Head(posted).src = DiskSource
    /\ df_disk_info' = TRUE
    /\ posted' = Tail(posted)
    /\ UNCHANGED <<fs, scanVars, combVars, scan_button, cancel_scan_button,
                   save_files_csv_button, save_folders_csv_button,
                   explorer_refresh_button, progress_bar, df_files_details,
                   df_folders_details, current_scan_path,
                   file_folder_scan_worker, workers, disk_threads,
                   disk_refreshes>>

\* The slot of error, of a FileFolderScanWorker and of a DiskScanWorker
\* alike: the message box, then the widgets.
show_error_message ==
    /\ posted # <<>>
    /\ Head(posted).sig = "error"
    /\ scan_button' = TRUE
    /\ cancel_scan_button' = FALSE
    /\ progress_bar' = 0
    /\ save_files_csv_button' = FALSE
    /\ save_folders_csv_button' = FALSE
    /\ explorer_refresh_button' = FALSE
    /\ workers' = IF Head(posted).src = DiskSource THEN workers
                  ELSE [workers EXCEPT ![Head(posted).src].delivered = "error"]
    /\ posted' = Tail(posted)
    /\ UNCHANGED <<fs, scanVars, combVars, df_disk_info, df_files_details,
                   df_folders_details, current_scan_path,
                   file_folder_scan_worker, disk_threads, disk_refreshes>>

InitApp ==
    /\ AppConstructed
    /\ fs = NoTree
    /\ ScanIdle
    /\ CombIdle

NextApp ==
    \/ start_file_folder_scan
    \/ cancel_file_folder_scan
    \/ refresh_disk_info
    \/ WorkerProgress
    \/ WorkerFinished
    \/ WorkerError
    \/ DiskWorkerEnds
    \/ update_scan_progress
    \/ update_scanner_tab_on_completion
    \/ update_disk_tab
    \/ show_error_message

SpecApp == InitApp /\ [][NextApp]_vars

\* ---------------------------------------------- properties of the window
\* The worker's thread is running.
Running(w) == workers[w].alive

\* The worker has not yet delivered finished or error to the window.
Undelivered(w) == workers[w].delivered = "none"

\* C22: at most one file/folder scan worker thread runs at any time, and
\* under every interleaving of clicks and worker signals (those of the disk
\* scan included) start_file_folder_scan cannot be triggered while an
\* earlier scan has not delivered finished or error: until then the scan
\* button is disabled.
C22_OneScanAtATime ==
    /\ Cardinality({w \in DOMAIN workers : Running(w)}) <= 1
    /\ Cardinality({w \in DOMAIN workers : Undelivered(w)}) <= 1
    /\ (\E w \in DOMAIN workers : Undelivered(w)) => ~scan_button

\* The results the window holds are empty.
NoResults ==
    /\ df_files_details = NoWorker
    /\ df_folders_details = NoWorker
    /\ current_scan_path = NoWorker

\* C25: scan results reach the window only through the slot of finished:
\* while a scan is running the two frames and current_scan_path are empty,
\* and they are empty after a scan that ended by cancellation or error (no
\* partial result, and no earlier result retained).
C25_ResultsOnlyThroughFinished ==
    /\ (\E w \in DOMAIN workers : Running(w)) => NoResults
    /\ (/\ file_folder_scan_worker # NoWorker
        /\ workers[file_folder_scan_worker].delivered = "error") => NoResults
    /\ \A w \in DOMAIN workers :
          df_files_details = w => workers[w].delivered = "finished"

\* C29: whenever a scan is running and its cancellation was not requested,
\* the cancel button is enabled and cancel_file_folder_scan targets the
\* running worker.
C29_CancelTargetsRunningScan ==
    \A w \in DOMAIN workers :
        (Running(w) /\ ~workers[w].is_cancelled)
        => (cancel_scan_button /\ file_folder_scan_worker = w)

=============================================================================
